---------------------------- MODULE Spec2Model ----------------------------
(***************************************************************************)
(* Duplicate block extraction and refactoring engine (PHPRefactor in       *)
(* src/php_refactor.py): scan_directory, _extract_potential_blocks,        *)
(* identify_common_blocks, create_includes, apply_includes and run.        *)
(*                                                                         *)
(* Text is a sequence of symbols.  A symbol is one character of text, one  *)
(* whitespace character, or one markup tag / PHP delimiter taken as a      *)
(* whole; every symbol counts as one character of length.  Page files are  *)
(* in the serialisation BeautifulSoup writes (str(tag) of an element is    *)
(* the element's own span of the file), tags are balanced, and PHP blocks  *)
(* hold no tags.                                                           *)
(***************************************************************************)
EXTENDS Integers, Sequences, FiniteSets, TLC

(***************************************************************************)
(* Bounds of the model.                                                    *)
(***************************************************************************)
MaxFiles == 3
MaxRuns == 2

(***************************************************************************)
(* Symbols.                                                                *)
(***************************************************************************)
SP == " "
NL == "\n"
Whitespace == {SP, NL}
HeaderOpen == "<header>"
HeaderClose == "</header>"
FooterOpen == "<footer>"
FooterClose == "</footer>"
ScriptOpen == "<script>"
ScriptClose == "</script>"
NavOpen == "<nav class=nav>"
NavClose == "</nav>"
LinkStyle == "<link href=/css/style.css/>"
LinkResponsive == "<link href=/css/responsive.css/>"
LinkFotorama == "<link href=/css/fotorama.dev.css/>"
LinkFavicon == "<link href=/images/favicon.ico/>"
LinkTags == {LinkStyle, LinkResponsive, LinkFotorama, LinkFavicon}
\* a script element with an attribute, an anchor element as a whole (link
\* target and visible label), the head element, meta elements and a title
\* element as wholes
ScriptSrcOpen == "<script src=/app.js>"
AHome == "<a href=/>Home</a>"
ANews == "<a href=/news>News</a>"
AAbout == "<a href=/about>About</a>"
Anchors == {AHome, ANews, AAbout}
HeadOpen == "<head>"
HeadClose == "</head>"
MetaCharset == "<meta charset=utf-8/>"
MetaViewport == "<meta name=viewport/>"
MetaTags == {MetaCharset, MetaViewport}
Title == "<title>t</title>"
\* a character reference to a lone surrogate, &#xD800;: the parse tree holds
\* the surrogate itself, and str(tag).encode() of an element that holds it
\* raises UnicodeEncodeError
BadRef == "&#xD800;"
PhpOpen == "<?php"
PhpClose == "?>"
IncludeWord == "include"

(***************************************************************************)
(* Sequence helpers (Python slices, str.find, str.replace).                *)
(***************************************************************************)
Min(S) == CHOOSE x \in S : \A y \in S : x <= y
Max(S) == CHOOSE x \in S : \A y \in S : x >= y

Range(seq) == {seq[k] : k \in 1..Len(seq)}

\* s[i:j] with 0-based, half-open Python indices, clipped like Python does.
Slice(s, i, j) ==
    LET lo == IF i < 0 THEN 0 ELSE i
        hi == IF j > Len(s) THEN Len(s) ELSE j
    IN  IF hi <= lo THEN << >> ELSE SubSeq(s, lo + 1, hi)

\* s[i:i+Len(t)] == t
MatchAt(s, t, i) ==
    /\ i >= 0
    /\ i + Len(t) <= Len(s)
    /\ \A k \in 1..Len(t) : s[i + k] = t[k]

\* s.find(t, start): the least 0-based position >= start holding t, or -1.
Find(s, t, start) ==
    LET hits == {i \in start..(Len(s) - Len(t)) : MatchAt(s, t, i)}
    IN  IF hits = {} THEN -1 ELSE Min(hits)

\* t in s
Contains(s, t) == Find(s, t, 0) # -1

RECURSIVE ReplaceFrom(_, _, _, _)
\* str.replace(old, new) from position `from` on: every non-overlapping
\* occurrence of old, left to right.
ReplaceFrom(s, old, new, from) ==
    LET p == Find(s, old, from)
    IN  IF p = -1 \/ Len(old) = 0 THEN Slice(s, from, Len(s))
        ELSE Slice(s, from, p) \o new \o ReplaceFrom(s, old, new, p + Len(old))

\* original_content.replace(old, new)
ReplaceAll(s, old, new) == ReplaceFrom(s, old, new, 0)

\* original_content[:start] + new + original_content[end:]
Splice(s, start, end, new) == Slice(s, 0, start) \o new \o Slice(s, end, Len(s))

RECURSIVE NormalizeWs(_)
\* re.sub(r'\s+', ' ', s): every run of whitespace becomes one space.
NormalizeWs(s) ==
    IF s = << >> THEN << >>
    ELSE IF Head(s) \in Whitespace
         THEN LET rest == NormalizeWs(Tail(s))
              IN  IF rest # << >> /\ Head(rest) = SP THEN rest ELSE <<SP>> \o rest
         ELSE <<Head(s)>> \o NormalizeWs(Tail(s))

RECURSIVE RStrip(_)
\* str.rstrip()
RStrip(s) ==
    IF s # << >> /\ s[Len(s)] \in Whitespace THEN RStrip(SubSeq(s, 1, Len(s) - 1)) ELSE s

(***************************************************************************)
(* Similarity Scorer: difflib.SequenceMatcher(None, a, b).ratio(), the     *)
(* Ratcliff/Obershelp count of matching characters (no junk: the autojunk  *)
(* heuristic only acts on texts of 200 characters or more).                *)
(***************************************************************************)
RECURSIVE CommonRun(_, _, _, _, _, _)
\* length of the longest common run a[i:..] = b[j:..] inside a[..ahi), b[..bhi)
CommonRun(a, b, i, j, ahi, bhi) ==
    IF i < ahi /\ j < bhi /\ a[i + 1] = b[j + 1]
    THEN 1 + CommonRun(a, b, i + 1, j + 1, ahi, bhi)
    ELSE 0

\* find_longest_match(alo, ahi, blo, bhi): <<i, j, k>>, the longest block,
\* earliest in a, then earliest in b.
FindLongestMatch(a, b, alo, ahi, blo, bhi) ==
    LET pairs == (alo..(ahi - 1)) \X (blo..(bhi - 1))
        run == [p \in pairs |-> CommonRun(a, b, p[1], p[2], ahi, bhi)]
        k == IF pairs = {} THEN 0 ELSE Max({run[p] : p \in pairs})
    IN  IF k = 0 THEN <<alo, blo, 0>>
        ELSE LET i == Min({p[1] : p \in {q \in pairs : run[q] = k}})
                 j == Min({jj \in blo..(bhi - 1) : run[<<i, jj>>] = k})
             IN  <<i, j, k>>

RECURSIVE MatchingChars(_, _, _, _, _, _)
\* sum of the sizes of get_matching_blocks() over a[alo:ahi], b[blo:bhi]
MatchingChars(a, b, alo, ahi, blo, bhi) ==
    LET m == FindLongestMatch(a, b, alo, ahi, blo, bhi)
        i == m[1]
        j == m[2]
        k == m[3]
    IN  IF k = 0 THEN 0
        ELSE k
             + (IF alo < i /\ blo < j THEN MatchingChars(a, b, alo, i, blo, j) ELSE 0)
             + (IF i + k < ahi /\ j + k < bhi
                THEN MatchingChars(a, b, i + k, ahi, j + k, bhi) ELSE 0)

\* ratio() as the exact fraction <<numerator, denominator>>: 2*M/T, and 1.0
\* when both texts are empty.
Ratio(a, b) ==
    IF Len(a) + Len(b) = 0 THEN <<1, 1>>
    ELSE <<2 * MatchingChars(a, b, 0, Len(a), 0, Len(b)), Len(a) + Len(b)>>

\* ratio() >= pct / 100
RatioAtLeast(a, b, pct) ==
    LET r == Ratio(a, b)
    IN  r[1] * 100 >= pct * r[2]

(***************************************************************************)
(* hashlib.md5(text.encode()).hexdigest(): a collision-resistant digest.   *)
(* Two texts have the same digest exactly when they are the same text; the *)
(* digest is written as the string that spells the text.                   *)
(***************************************************************************)
RECURSIVE Md5Hex(_)
Md5Hex(text) == IF text = << >> THEN "" ELSE Head(text) \o Md5Hex(Tail(text))

\* hexdigest()[:8], the fingerprint prefix of an artifact's file name.  Within
\* the bounds of the model no two digests share their first 8 hex digits.
HexPrefix8(digest) == digest

(***************************************************************************)
(* The parse tree of BeautifulSoup(content, 'html.parser'), as the spans   *)
(* <<start, end>> (0-based, half-open) of the elements of one tag.         *)
(***************************************************************************)
RECURSIVE SortedSeq(_)
\* the members of a set of integers, ascending
SortedSeq(S) == IF S = {} THEN << >> ELSE <<Min(S)>> \o SortedSeq(S \ {Min(S)})

\* the symbol opens an element of the tag that `open` opens, whatever its
\* attributes
OpensTag(sym, open) == sym = open \/ (open = ScriptOpen /\ sym = ScriptSrcOpen)

RECURSIVE CloseOf(_, _, _, _, _)
\* the end of the element opened before position i, nested elements of the
\* same tag skipped; an element never closed runs to the end of the text
CloseOf(s, open, close, i, depth) ==
    IF i >= Len(s) THEN Len(s)
    ELSE IF s[i + 1] = close
         THEN IF depth = 0 THEN i + 1 ELSE CloseOf(s, open, close, i + 1, depth - 1)
         ELSE IF OpensTag(s[i + 1], open) THEN CloseOf(s, open, close, i + 1, depth + 1)
              ELSE CloseOf(s, open, close, i + 1, depth)

\* soup.find_all(tag), in document order
FindAll(s, open, close) ==
    LET starts == SortedSeq({i \in 0..(Len(s) - 1) : OpensTag(s[i + 1], open)})
    IN  [n \in 1..Len(starts) |->
            <<starts[n], CloseOf(s, open, close, starts[n] + 1, 0)>>]

\* str(tag) of the element at a span
StrOf(s, span) == Slice(s, span[1], span[2])

Block(type, content, digest) == [type |-> type, content |-> content, hash |-> digest]

\* lines 66-73 (and 76-82): one block per element, when long enough
ElementBlocks(s, open, close, type, min_block_size) ==
    LET all == FindAll(s, open, close)
        strs == [n \in 1..Len(all) |-> StrOf(s, all[n])]
        kept == SelectSeq(strs, LAMBDA c : Len(c) >= min_block_size)
    IN  [n \in 1..Len(kept) |-> Block(type, kept[n], Md5Hex(kept[n]))]

\* lines 85-91 (and 94-100): soup.find(tag), the first element only
FirstElementBlock(s, open, close, type, min_block_size) ==
    LET all == FindAll(s, open, close)
    IN  IF Len(all) > 0 /\ Len(StrOf(s, all[1])) >= min_block_size
        THEN <<Block(type, StrOf(s, all[1]), Md5Hex(StrOf(s, all[1])))>>
        ELSE << >>

RECURSIVE SkipWs(_, _)
\* the position after the whitespace run at position i (\s*)
SkipWs(s, i) == IF i < Len(s) /\ s[i + 1] \in Whitespace THEN SkipWs(s, i + 1) ELSE i

RECURSIVE PatternEnd(_, _, _)
\* re.match of tags[1] \s* tags[2] \s* ... at position i: the end of the match,
\* or -1
PatternEnd(s, tags, i) ==
    IF tags = << >> THEN i
    ELSE IF i < Len(s) /\ s[i + 1] = Head(tags)
         THEN IF Len(tags) = 1 THEN i + 1
              ELSE PatternEnd(s, Tail(tags), SkipWs(s, i + 1))
         ELSE -1

\* re.finditer of such a pattern: the spans of its matches, left to right
PatternMatches(s, tags) ==
    LET starts == SortedSeq({i \in 0..(Len(s) - 1) : PatternEnd(s, tags, i) # -1})
    IN  [n \in 1..Len(starts) |-> <<starts[n], PatternEnd(s, tags, starts[n])>>]

\* line 177: the four fixed link elements
CssPattern == <<LinkStyle, LinkResponsive, LinkFotorama, LinkFavicon>>

\* lines 178-184: every match is a block; the length is not looked at
CssPatternBlocks(s, min_block_size) ==
    LET ms == PatternMatches(s, CssPattern)
    IN  [n \in 1..Len(ms) |-> Block("css_links", StrOf(s, ms[n]), Md5Hex(StrOf(s, ms[n])))]

RECURSIVE LinkRun(_, _, _)
\* (<link[^>]+>\s*)* from position i, greedy: <<number of links, end>>
LinkRun(s, i, n) ==
    IF i < Len(s) /\ s[i + 1] \in LinkTags THEN LinkRun(s, SkipWs(s, i + 1), n + 1)
    ELSE <<n, i>>

RECURSIVE LinkGroupSpans(_, _)
\* re.finditer(r'(<link[^>]+>\s*){3,}'): non-overlapping, leftmost, greedy
LinkGroupSpans(s, i) ==
    IF i >= Len(s) THEN << >>
    ELSE LET run == LinkRun(s, i, 0)
         IN  IF run[1] >= 3 THEN <<<<i, run[2]>>>> \o LinkGroupSpans(s, run[2])
             ELSE LinkGroupSpans(s, i + 1)

\* lines 187-195
LinkGroupBlocks(s, min_block_size) ==
    LET ms == LinkGroupSpans(s, 0)
        strs == [n \in 1..Len(ms) |-> StrOf(s, ms[n])]
        kept == SelectSeq(strs, LAMBDA c : Len(c) >= min_block_size)
    IN  [n \in 1..Len(kept) |-> Block("link_group", kept[n], Md5Hex(kept[n]))]

\* r'<\?php\s+(.+?)\s+\?>' tried at position p: <<inner start, inner end,
\* match end>>, or << >>.  \s+ is greedy and gives whitespace back only when
\* no inner text works; (.+?) is the shortest text followed by whitespace and ?>
PhpMatchAt(s, p) ==
    LET wsEnd == SkipWs(s, p + 1)
        InnerEnds(from) == {e \in (from + 1)..(Len(s) - 1) :
                               /\ s[e + 1] \in Whitespace
                               /\ SkipWs(s, e) < Len(s)
                               /\ s[SkipWs(s, e) + 1] = PhpClose}
        froms == {f \in (p + 2)..wsEnd : InnerEnds(f) # {}}
    IN  IF s[p + 1] # PhpOpen \/ froms = {} THEN << >>
        ELSE LET f == Max(froms)
                 e == Min(InnerEnds(f))
             IN  <<f, e, SkipWs(s, e) + 1>>

RECURSIVE PhpMatches(_, _)
\* re.findall: non-overlapping matches, left to right
PhpMatches(s, i) ==
    IF i >= Len(s) THEN << >>
    ELSE LET m == PhpMatchAt(s, i)
         IN  IF m = << >> THEN PhpMatches(s, i + 1)
             ELSE <<m>> \o PhpMatches(s, m[3])

\* lines 201-208: the length looked at is that of the text between the
\* delimiters, the digest is that text's, the content is rebuilt around it
PhpBlocks(s, min_block_size) ==
    LET ms == PhpMatches(s, 0)
        inners == [n \in 1..Len(ms) |-> Slice(s, ms[n][1], ms[n][2])]
        kept == SelectSeq(inners, LAMBDA c : Len(c) >= min_block_size)
    IN  [n \in 1..Len(kept) |->
            Block("php_code", <<PhpOpen, SP>> \o kept[n] \o <<SP, PhpClose>>, Md5Hex(kept[n]))]

\* the symbols that are markup; every other symbol is a character of text
Markup == {HeaderOpen, HeaderClose, FooterOpen, FooterClose, ScriptOpen, ScriptSrcOpen,
           ScriptClose, NavOpen, NavClose, HeadOpen, HeadClose, Title, PhpOpen, PhpClose}
          \cup LinkTags \cup MetaTags \cup Anchors
IsText(sym) == sym \notin Markup

\* line 103, soup.find('head'): the children of the first head element as the
\* positions <<lo, hi>> (0-based, half-open), or << >>
HeadChildren(s) ==
    LET heads == FindAll(s, HeadOpen, HeadClose)
    IN  IF heads = << >> THEN << >>
        ELSE LET end == heads[1][2]
             IN  <<heads[1][1] + 1, IF s[end] = HeadClose THEN end - 1 ELSE end>>

RECURSIVE TextEnd(_, _, _)
\* the end of the text node that begins at position i: adjacent characters
\* of text are one node
TextEnd(s, i, hi) == IF i < hi /\ IsText(s[i + 1]) THEN TextEnd(s, i + 1, hi) ELSE i

RECURSIVE NextSibling(_, _, _)
\* lines 675-677: the sibling reached from position i once whitespace-only
\* text nodes are skipped, or -1 (None)
NextSibling(s, i, hi) ==
    IF i >= hi THEN -1
    ELSE IF IsText(s[i + 1])
         THEN LET e == TextEnd(s, i, hi)
              IN  IF \A k \in (i + 1)..e : s[k] \in Whitespace
                  THEN NextSibling(s, e, hi) ELSE i
         ELSE i

\* are_adjacent_siblings with the whitespace-only text nodes not skipped
AreAdjacentSiblingsNoSkip(s, elem1, elem2, hi) == elem1 + 1 = elem2

\* are_adjacent_siblings(elem1, elem2), lines 675-680, for two elements of the
\* head given by their positions
AreAdjacentSiblings(s, elem1, elem2, hi) == NextSibling(s, elem1 + 1, hi) = elem2

RECURSIVE GroupEnd(_, _, _, _)
\* lines 126-132 (and 154-159): the index j at which the group stops growing
GroupEnd(s, tags, j, hi) ==
    IF j <= Len(tags) /\ AreAdjacentSiblings(s, tags[j - 1], tags[j], hi)
    THEN GroupEnd(s, tags, j + 1, hi)
    ELSE j

RECURSIVE SiblingGroups(_, _, _, _)
\* lines 119-144 (and 149-170): the groups, each a sequence of positions
SiblingGroups(s, tags, i, hi) ==
    IF i > Len(tags) THEN << >>
    ELSE LET j == GroupEnd(s, tags, i + 1, hi)
         IN  <<SubSeq(tags, i, j - 1)>> \o SiblingGroups(s, tags, j, hi)

\* lines 117-144 (and 148-170): a block per group of two or more, its content
\* the elements joined with nothing between them
SiblingGroupBlocks(s, tags, hi, type, min_block_size) ==
    IF Len(tags) < 2 THEN << >>
    ELSE LET groups == SelectSeq(SiblingGroups(s, tags, 1, hi), LAMBDA g : Len(g) >= 2)
             strs == [n \in 1..Len(groups) |->
                         [k \in 1..Len(groups[n]) |-> s[groups[n][k] + 1]]]
             kept == SelectSeq(strs, LAMBDA c : Len(c) >= min_block_size)
         IN  [n \in 1..Len(kept) |-> Block(type, kept[n], Md5Hex(kept[n]))]

\* lines 106-114: the link elements of the head that name a stylesheet or an
\* icon; every link element of the alphabet has such a target
CssFaviconLinks(s) ==
    LET head == HeadChildren(s)
    IN  IF head = << >> THEN << >>
        ELSE SortedSeq({k \in head[1]..(head[2] - 1) : s[k + 1] \in LinkTags})

\* line 147: head.find_all('meta')
HeadMetaTags(s) ==
    LET head == HeadChildren(s)
    IN  IF head = << >> THEN << >>
        ELSE SortedSeq({k \in head[1]..(head[2] - 1) : s[k + 1] \in MetaTags})

\* lines 103-170
HeadBlocks(s, min_block_size) ==
    LET head == HeadChildren(s)
    IN  IF head = << >> THEN << >>
        ELSE SiblingGroupBlocks(s, CssFaviconLinks(s), head[2], "css_links", min_block_size)
             \o SiblingGroupBlocks(s, HeadMetaTags(s), head[2], "meta_tags", min_block_size)

\* lines 67-100: the blocks of the script, navigation, header and footer
\* elements, were nothing to raise
ElementScan(content, min_block_size) ==
    ElementBlocks(content, ScriptOpen, ScriptClose, "script", min_block_size)
    \o ElementBlocks(content, NavOpen, NavClose, "navigation", min_block_size)
    \o FirstElementBlock(content, HeaderOpen, HeaderClose, "header", min_block_size)
    \o FirstElementBlock(content, FooterOpen, FooterClose, "footer", min_block_size)

\* hashlib.md5(str(tag).encode()) raises: the element holds a lone surrogate.
\* The text of a script element is not decoded, so a script never does.
EncodeRaises(block) ==
    block.type # "script" /\ \E k \in 1..Len(block.content) : block.content[k] = BadRef

\* the place in ElementScan of the first block whose append raises, or 0
FirstRaising(blocks) ==
    LET bad == {n \in 1..Len(blocks) : EncodeRaises(blocks[n])}
    IN  IF bad = {} THEN 0 ELSE Min(bad)

\* the try block of lines 63-198: an exception ends the scan where it is
\* raised; the blocks appended before it stay in the list
StructuralScan(content, min_block_size) ==
    LET elements == ElementScan(content, min_block_size)
        r == FirstRaising(elements)
    IN  IF r # 0
        THEN [raised |-> TRUE, blocks |-> SubSeq(elements, 1, r - 1)]
        ELSE [raised |-> FALSE,
              blocks |-> elements \o HeadBlocks(content, min_block_size)
                         \o CssPatternBlocks(content, min_block_size)
                         \o LinkGroupBlocks(content, min_block_size)]

\* _extract_potential_blocks(content): the structural scan, then the PHP
\* blocks of lines 201-208 whatever the scan did
ExtractPotentialBlocks(content, min_block_size) ==
    StructuralScan(content, min_block_size).blocks \o PhpBlocks(content, min_block_size)

(***************************************************************************)
(* identify_common_blocks: greedy grouping around a seed.                  *)
(***************************************************************************)
\* lines 220-224: the blocks of every file, in the order of file_contents
RECURSIVE AllBlocks(_, _, _, _)
AllBlocks(files, contents, min_block_size, n) ==
    IF n > Len(files) THEN << >>
    ELSE LET bs == ExtractPotentialBlocks(contents[files[n]], min_block_size)
         IN  [k \in 1..Len(bs) |->
                 [type |-> bs[k].type, content |-> bs[k].content,
                  hash |-> bs[k].hash, file |-> files[n]]]
             \o AllBlocks(files, contents, min_block_size, n + 1)

\* the test of line 240 written as a truth test of the ratio
SimilarAnyOverlap(block1, block2, threshold) ==
    Ratio(block1.content, block2.content)[1] > 0

\* the comparison of line 240 turned round
SimilarBelow(block1, block2, threshold) ==
    ~RatioAtLeast(block1.content, block2.content, threshold)

\* line 239-240: similarity >= self.similarity_threshold (a percentage here)
Similar(block1, block2, threshold) ==
    RatioAtLeast(block1.content, block2.content, threshold)

\* line 235: a later block is passed over when its digest is already claimed or
\* when it comes from the file of the seed
Skipped(block1, block2, processed_hashes) ==
    block2.hash \in processed_hashes \/ block1.file = block2.file

RECURSIVE ScanLater(_, _, _, _, _, _)
\* lines 233-242: the blocks after the seed all_blocks[i], from index j on
ScanLater(all_blocks, i, j, similar_blocks, processed_hashes, threshold) ==
    IF j > Len(all_blocks)
    THEN [similar_blocks |-> similar_blocks, processed_hashes |-> processed_hashes]
    ELSE IF Skipped(all_blocks[i], all_blocks[j], processed_hashes)
         THEN ScanLater(all_blocks, i, j + 1, similar_blocks, processed_hashes, threshold)
         ELSE IF Similar(all_blocks[i], all_blocks[j], threshold)
              THEN ScanLater(all_blocks, i, j + 1, Append(similar_blocks, all_blocks[j]),
                             processed_hashes \cup {all_blocks[j].hash}, threshold)
              ELSE ScanLater(all_blocks, i, j + 1, similar_blocks, processed_hashes,
                             threshold)

\* line 246: f"{block1['type']}_{len(self.common_blocks)}"
BlockId(type, n) == type \o "_" \o ToString(n)

\* the test of line 245 with a strict comparison
RetainedStrict(similar_blocks, min_occurrences) == Len(similar_blocks) > min_occurrences

\* line 245: the forming cluster is kept
Retained(similar_blocks, min_occurrences) == Len(similar_blocks) >= min_occurrences

RECURSIVE GroupFrom(_, _, _, _, _, _)
\* lines 227-248: common_blocks as the sequence of its items, in insertion
\* order: [id, blocks]
GroupFrom(all_blocks, i, processed_hashes, common_blocks, threshold, min_occurrences) ==
    IF i > Len(all_blocks) THEN common_blocks
    ELSE IF all_blocks[i].hash \in processed_hashes
         THEN GroupFrom(all_blocks, i + 1, processed_hashes, common_blocks,
                        threshold, min_occurrences)
         ELSE LET r == ScanLater(all_blocks, i, i + 1, <<all_blocks[i]>>,
                                 processed_hashes, threshold)
              IN  IF Retained(r.similar_blocks, min_occurrences)
                  THEN GroupFrom(all_blocks, i + 1,
                                 r.processed_hashes \cup {all_blocks[i].hash},
                                 Append(common_blocks,
                                        [id |-> BlockId(all_blocks[i].type, Len(common_blocks)),
                                         blocks |-> r.similar_blocks]),
                                 threshold, min_occurrences)
                  ELSE GroupFrom(all_blocks, i + 1, r.processed_hashes, common_blocks,
                                 threshold, min_occurrences)

RECURSIVE FormingFrom(_, _, _, _, _)
\* lines 227-248 again, keeping every forming cluster: the seed's place in
\* all_blocks, similar_blocks, whether line 245 kept it, and processed_hashes
\* as the iteration left it
FormingFrom(all_blocks, i, processed_hashes, threshold, min_occurrences) ==
    IF i > Len(all_blocks) THEN << >>
    ELSE IF all_blocks[i].hash \in processed_hashes
         THEN FormingFrom(all_blocks, i + 1, processed_hashes, threshold, min_occurrences)
         ELSE LET r == ScanLater(all_blocks, i, i + 1, <<all_blocks[i]>>,
                                 processed_hashes, threshold)
                  kept == Retained(r.similar_blocks, min_occurrences)
                  claimed == IF kept THEN r.processed_hashes \cup {all_blocks[i].hash}
                             ELSE r.processed_hashes
              IN  <<[seed |-> i, blocks |-> r.similar_blocks, retained |-> kept,
                     processed_hashes |-> claimed]>>
                  \o FormingFrom(all_blocks, i + 1, claimed, threshold, min_occurrences)

\* identify_common_blocks()
IdentifyCommonBlocks(all_blocks, threshold, min_occurrences) ==
    GroupFrom(all_blocks, 1, {}, << >>, threshold, min_occurrences)

(***************************************************************************)
(* create_includes and the reference statement.                            *)
(***************************************************************************)
IncludesDir == "includes"

\* the template of line 272 taken from the last member
IncludeContentLast(blocks) == blocks[Len(blocks)].content

\* line 272: the content written is that of the first member
IncludeContent(blocks) == blocks[1].content

\* lines 313-314: <?php include '<relative path>'; ?>\n
IncludeStatement(include_path) ==
    <<PhpOpen, SP, IncludeWord, SP, "'" \o include_path \o "';", SP, PhpClose, NL>>

(***************************************************************************)
(* Paths.  A page file is [dir |-> ".", type |-> "", name |-> stem]; the    *)
(* artifact <type>_<prefix>.php is [dir |-> "includes", type, name |->      *)
(* prefix].                                                                *)
(***************************************************************************)
PagePath(stem) == [dir |-> ".", type |-> "", name |-> stem]

\* the filename of line 276 without the digest prefix
ArtifactPathTypeOnly(blocks) ==
    [dir |-> IncludesDir, type |-> blocks[1].type, name |-> ""]

\* os.path.join(self.includes_dir, include_filename), lines 276-277
ArtifactPath(blocks) ==
    [dir |-> IncludesDir, type |-> blocks[1].type,
     name |-> HexPrefix8(Md5Hex(blocks[1].content))]

\* os.path.relpath(include_path, self.directory), line 313
RelPath(path) ==
    IF path.dir = "." THEN path.name \o ".php"
    ELSE path.dir \o "/" \o path.type \o "_" \o path.name \o ".php"

\* 'navigation' in os.path.basename(file_path).lower(), lines 516 and 622: the
\* page navigation.php, and every artifact of type navigation (a hex prefix
\* cannot spell the word)
IsNavigationFile(path) ==
    IF path.dir = "." THEN path.name = "navigation" ELSE path.type = "navigation"

(***************************************************************************)
(* apply_includes: the tiers tried on one member occurrence.  Each gives   *)
(* [hit, content]: whether it found something to replace in                *)
(* original_content, and the new content it would write.                   *)
(***************************************************************************)
Miss == [hit |-> FALSE, content |-> << >>, name |-> "none"]
Hit(name, content) == [hit |-> TRUE, content |-> content, name |-> name]

\* the branches of lines 334 and 343 taken in the other order: the debug
\* branch first, the replacement only without it
ExactTierDebugFirst(block, original_content, include_statement, debug) ==
    IF debug
    THEN [hit |-> FALSE, content |-> << >>, diag |-> TRUE]
    ELSE IF Contains(original_content, block.content)
         THEN [hit |-> ReplaceAll(original_content, block.content, include_statement)
                          # original_content,
               content |-> ReplaceAll(original_content, block.content, include_statement),
               diag |-> FALSE]
         ELSE [hit |-> FALSE, content |-> << >>, diag |-> FALSE]

\* lines 334-336 and 343-344: direct string replacement.  diag: the debug line
\* "Exact match failed" is printed
ExactTier(block, original_content, include_statement, debug) ==
    IF Contains(original_content, block.content)
    THEN [hit |-> ReplaceAll(original_content, block.content, include_statement)
                     # original_content,
          content |-> ReplaceAll(original_content, block.content, include_statement),
          diag |-> FALSE]
    ELSE IF debug
         THEN [hit |-> FALSE, content |-> << >>, diag |-> TRUE]
         ELSE [hit |-> FALSE, content |-> << >>, diag |-> FALSE]

\* lines 352-369: the link elements of the block, joined by \s*, first match
LinkPatternTier(block, original_content, include_statement) ==
    LET link_tags == SelectSeq(block.content, LAMBDA t : t \in LinkTags)
        matches == IF link_tags = << >> THEN << >>
                   ELSE PatternMatches(original_content, link_tags)
    IN  IF matches = << >> THEN Miss
        ELSE Hit("link_pattern",
                 Splice(original_content, matches[1][1], matches[1][2], include_statement))

\* line 392: file_soup.find_all(soup.name), where soup is the BeautifulSoup
\* object of the block and its name is '[document]': no element has that name
PotentialMatches(block, original_content) == << >>

\* what a symbol gives to a fingerprint: the target of an anchor, the class
\* name of a nav element (no element of the alphabet has an id)
FingerprintItem(sym) ==
    CASE sym = AHome -> "/"
      [] sym = AAbout -> "/about"
      [] sym = ANews -> "/news"
      [] sym = NavOpen -> "nav"
      [] OTHER -> ""

\* the items a fingerprint can hold, in sorted order
FingerprintItems == <<"/", "/about", "/news", "nav">>

RECURSIVE Repeat(_, _)
Repeat(x, n) == IF n = 0 THEN << >> ELSE <<x>> \o Repeat(x, n - 1)

RECURSIVE SortedItems(_, _)
\* sorted(links + classes + ids), from the n-th item of the order on
SortedItems(text, n) ==
    IF n > Len(FingerprintItems) THEN << >>
    ELSE Repeat(FingerprintItems[n],
                Cardinality({k \in 1..Len(text) :
                                FingerprintItem(text[k]) = FingerprintItems[n]}))
         \o SortedItems(text, n + 1)

RECURSIVE Join(_)
\* '|'.join(items)
Join(items) == IF Len(items) <= 1 THEN items ELSE <<Head(items), "|">> \o Join(Tail(items))

\* lines 380-385 (and 402-405): the fingerprint of an element's text, each
\* item and each separator one symbol
Fingerprint(text) == Join(SortedItems(text, 1))

\* line 410: one score is better than another (scores are fractions
\* <<numerator, denominator>>)
Better(a, b) == a[1] * b[2] > b[1] * a[2]

\* lines 397-412: the first of the potential matches that scores best, 0
\* when none scores above 0 (best_similarity starts at 0 and only rises)
BestMatch(similarity) ==
    LET scoring == {n \in DOMAIN similarity : similarity[n][1] > 0}
    IN  IF scoring = {} THEN 0
        ELSE CHOOSE n \in scoring :
                 \A m \in scoring :
                     /\ ~Better(similarity[m], similarity[n])
                     /\ m < n => Better(similarity[n], similarity[m])

\* lines 417-423: the best match is replaced when its score is at least 0.8
FingerprintReplace(original_content, include_statement, potential_matches, similarity) ==
    LET best_match == BestMatch(similarity)
    IN  IF best_match = 0 THEN Miss
        ELSE IF similarity[best_match][1] * 100 >= 80 * similarity[best_match][2]
             THEN Hit("fingerprint",
                      ReplaceAll(original_content,
                                 StrOf(original_content, potential_matches[best_match]),
                                 include_statement))
             ELSE Miss

\* lines 374-427: the first of the potential matches that scores best, when
\* its score is at least 0.8
FingerprintTier(block, original_content, include_statement) ==
    LET fingerprint == Fingerprint(block.content)
        potential_matches == PotentialMatches(block, original_content)
        similarity ==
            [n \in 1..Len(potential_matches) |->
                Ratio(fingerprint,
                      Fingerprint(StrOf(original_content, potential_matches[n])))]
    IN  FingerprintReplace(original_content, include_statement, potential_matches,
                           similarity)

\* script_tag.attrs, as the set of its <<key, value>> pairs
ScriptAttrs(sym) == IF sym = ScriptSrcOpen THEN {<<"src", "/app.js">>} ELSE {}

\* lines 438-468: the first script of the file that has every attribute of
\* the block's first script element with the same value (lines 451-455) is
\* replaced; its text is in the file
ScriptTier(block, original_content, include_statement) ==
    LET script_tag == FindAll(block.content, ScriptOpen, ScriptClose)
        scripts == FindAll(original_content, ScriptOpen, ScriptClose)
        script_attrs == ScriptAttrs(block.content[script_tag[1][1] + 1])
        matching == {n \in 1..Len(scripts) :
                        script_attrs \subseteq
                            ScriptAttrs(original_content[scripts[n][1] + 1])}
    IN  IF script_tag = << >> \/ matching = {} THEN Miss
        ELSE Hit("script",
                 ReplaceAll(original_content,
                            StrOf(original_content, scripts[Min(matching)]),
                            include_statement))

\* lines 474-494: the meta elements of the block, joined by \s*, first match
MetaTier(block, original_content, include_statement) ==
    LET meta_tags == SelectSeq(block.content, LAMBDA t : t \in MetaTags)
        matches == IF meta_tags = << >> THEN << >>
                   ELSE PatternMatches(original_content, meta_tags)
    IN  IF matches = << >> THEN Miss
        ELSE Hit("meta_tags",
                 Splice(original_content, matches[1][1], matches[1][2], include_statement))

\* lines 516-517: the navigation special case of the fuzzy tier
FuzzyWholeFile(block, block_type, original_content, file_path) ==
    /\ block_type = "navigation"
    /\ IsNavigationFile(file_path)
    /\ 2 * Len(original_content) < 3 * Len(block.content)

FuzzyBefore == 20
FuzzyWindow == 100

\* lines 536-547: the spans <<i, length>> of original_content that the probe
\* around one normalized position pos accepts
FuzzySpansAt(block, original_content, pos) ==
    LET normalized_block == NormalizeWs(block.content)
        original_start ==
            Len(RStrip(NormalizeWs(Slice(original_content, 0, pos + FuzzyBefore))))
        lo == IF original_start - FuzzyWindow < 0 THEN 0 ELSE original_start - FuzzyWindow
        hi == IF original_start + FuzzyWindow > Len(original_content)
              THEN Len(original_content) ELSE original_start + FuzzyWindow
        longest == IF Len(block.content) + FuzzyWindow - 1 > Len(original_content)
                   THEN Len(original_content) ELSE Len(block.content) + FuzzyWindow - 1
    IN  {sp \in (lo..(hi - 1)) \X (Len(block.content)..longest) :
            /\ sp[1] + sp[2] <= Len(original_content)
            /\ NormalizeWs(Slice(original_content, sp[1], sp[1] + sp[2])) = normalized_block}

RECURSIVE FuzzyScan(_, _, _)
\* the while loop of lines 530-563 from start_pos on: the first span found,
\* lowest i first and then shortest, or << >>
FuzzyScan(block, original_content, start_pos) ==
    LET normalized_content == NormalizeWs(original_content)
        normalized_block == NormalizeWs(block.content)
        pos == Find(normalized_content, normalized_block, start_pos)
    IN  IF pos = -1 THEN << >>
        ELSE LET spans == FuzzySpansAt(block, original_content, pos)
             IN  IF spans # {}
                 THEN LET i == Min({sp[1] : sp \in spans})
                      IN  <<i, Min({sp[2] : sp \in {q \in spans : q[1] = i}})>>
                 ELSE FuzzyScan(block, original_content, pos + Len(normalized_block))

\* lines 506-563, the writes apart
FuzzyTier(block, block_type, original_content, include_statement, file_path) ==
    IF ~Contains(NormalizeWs(original_content), NormalizeWs(block.content)) THEN Miss
    ELSE IF FuzzyWholeFile(block, block_type, original_content, file_path)
         THEN Hit("navigation_file", include_statement)
         ELSE LET sp == FuzzyScan(block, original_content, 0)
              IN  IF sp = << >> THEN Miss
                  ELSE Hit("fuzzy",
                           Splice(original_content, sp[1], sp[1] + sp[2], include_statement))

MinMenuItems == 3

\* lines 575-616: the (target, label) pairs of the block's anchors, at least
\* 3 of them (line 580); the first nav container of the file that holds at
\* least 70% of them is replaced
NavContentTier(block, original_content, include_statement) ==
    LET menu_items == SelectSeq(block.content, LAMBDA t : t \in Anchors)
        potential_navs == FindAll(original_content, NavOpen, NavClose)
        nav_links(n) == {t \in Range(StrOf(original_content, potential_navs[n])) :
                            t \in Anchors}
        matches(n) == Cardinality({k \in 1..Len(menu_items) : menu_items[k] \in nav_links(n)})
        found == {n \in 1..Len(potential_navs) : matches(n) * 10 >= 7 * Len(menu_items)}
    IN  IF Len(menu_items) < MinMenuItems \/ found = {} THEN Miss
        ELSE Hit("menu_content",
                 ReplaceAll(original_content,
                            StrOf(original_content, potential_navs[Min(found)]),
                            include_statement))

NavFileCeiling == 5000

\* lines 622-637: a small navigation file is replaced whole
NavFileTier(block_type, original_content, include_statement, file_path) ==
    IF /\ block_type = "navigation"
       /\ IsNavigationFile(file_path)
       /\ Len(original_content) < NavFileCeiling
    THEN Hit("navigation_fallback", include_statement)
    ELSE Miss

\* the chain of lines 333-640 with the approaches tried from the last to the
\* first
ApplyTiersLastFirst(block, block_type, original_content, include_statement, file_path, can_write, debug) ==
    LET t1 == ExactTier(block, original_content, include_statement, debug)
        t2 == IF block_type \in {"css_links", "link_group"}
              THEN LinkPatternTier(block, original_content, include_statement)
              ELSE IF block_type \in {"navigation", "header", "footer"}
                   THEN FingerprintTier(block, original_content, include_statement)
                   ELSE Miss
        t3 == IF block_type = "script"
              THEN ScriptTier(block, original_content, include_statement)
              ELSE IF block_type = "meta_tags"
                   THEN MetaTier(block, original_content, include_statement)
                   ELSE Miss
        t4 == FuzzyTier(block, block_type, original_content, include_statement, file_path)
        t5 == IF block_type = "navigation"
              THEN NavContentTier(block, original_content, include_statement)
              ELSE Miss
        t6 == NavFileTier(block_type, original_content, include_statement, file_path)
        made(tier, content) == [tier |-> tier, content |-> content, raised |-> FALSE,
                                diag |-> debug]
    IN  IF t6.hit THEN made(t6.name, t6.content)
        ELSE IF t5.hit THEN made(t5.name, t5.content)
        ELSE IF t4.hit THEN made(t4.name, t4.content)
        ELSE IF t3.hit THEN made(t3.name, t3.content)
        ELSE IF t2.hit THEN made(t2.name, t2.content)
        ELSE IF t1.hit THEN made("exact", t1.content)
        ELSE made("none", original_content)

\* lines 323-643 for one member: the outcome of the chain.  can_write: the
\* open(file_path, 'w') of the owning file succeeds.  A failing write raises
\* out of apply_includes in the tiers of lines 334-369, which no try guards,
\* and is caught (the tier then counts as failed) in the later ones.
\* diag: a debug line was printed (line 328 prints one whenever debug is set).
Outcome(tier, content, raised, diag) ==
    [tier |-> tier, content |-> content, raised |-> raised, diag |-> diag]

ApplyTiers(block, block_type, original_content, include_statement, file_path, can_write, debug) ==
    LET t1 == ExactTier(block, original_content, include_statement, debug)
        unguarded == block_type \in {"css_links", "link_group"}
        t2 == IF unguarded
              THEN LinkPatternTier(block, original_content, include_statement)
              ELSE IF block_type \in {"navigation", "header", "footer"}
                   THEN FingerprintTier(block, original_content, include_statement)
                   ELSE Miss
        t3 == IF block_type = "script"
              THEN ScriptTier(block, original_content, include_statement)
              ELSE IF block_type = "meta_tags"
                   THEN MetaTier(block, original_content, include_statement)
                   ELSE Miss
        t4 == FuzzyTier(block, block_type, original_content, include_statement, file_path)
        t5 == IF block_type = "navigation"
              THEN NavContentTier(block, original_content, include_statement)
              ELSE Miss
        t6 == NavFileTier(block_type, original_content, include_statement, file_path)
        diag == debug \/ t1.diag
    IN  IF t1.hit
        THEN IF can_write THEN Outcome("exact", t1.content, FALSE, diag)
             ELSE Outcome("none", original_content, TRUE, diag)
        ELSE IF t2.hit /\ unguarded /\ ~can_write
        THEN Outcome("none", original_content, TRUE, diag)
        ELSE IF t2.hit /\ can_write THEN Outcome(t2.name, t2.content, FALSE, diag)
        ELSE IF t3.hit /\ can_write THEN Outcome(t3.name, t3.content, FALSE, diag)
        ELSE IF t4.hit /\ can_write THEN Outcome(t4.name, t4.content, FALSE, diag)
        ELSE IF t5.hit /\ can_write THEN Outcome(t5.name, t5.content, FALSE, diag)
        ELSE IF t6.hit /\ can_write THEN Outcome(t6.name, t6.content, FALSE, diag)
        ELSE Outcome("none", original_content, FALSE, diag)

(***************************************************************************)
(* The directory handed to the engine: page files drawn from these         *)
(* documents.                                                              *)
(***************************************************************************)
DocHeader == <<HeaderOpen, "a", SP, "b", HeaderClose>>
DocHeaderWs == <<HeaderOpen, "a", SP, SP, "b", HeaderClose>>
DocScript == <<ScriptOpen, "a", SP, "b", ScriptClose>>
DocScriptTwice == <<ScriptOpen, "a", SP, SP, "b", ScriptClose,
                    ScriptOpen, "a", SP, SP, "b", ScriptClose>>
DocTwoScripts == <<ScriptOpen, "a", SP, SP, "b", ScriptClose,
                   ScriptOpen, SP, "a", SP, "b", ScriptClose>>
DocNested == <<HeaderOpen, ScriptOpen, "a", SP, "b", ScriptClose, HeaderClose>>
DocNavFooter == <<NavOpen, "a", SP, "b", NavClose, FooterOpen, "a", SP, "b", FooterClose>>
DocCss == <<LinkStyle, SP, LinkResponsive, LinkFotorama, LinkFavicon>>
DocPhp == <<PhpOpen, SP, "a", SP, "b", SP, "c", "d", SP, PhpClose>>
DocPhpWs == <<PhpOpen, SP, NL, "a", SP, "b", SP, "c", "d", SP, PhpClose>>
Docs == {DocHeader, DocHeaderWs, DocScript, DocScriptTwice, DocTwoScripts, DocNested,
         DocNavFooter, DocCss, DocPhp, DocPhpWs}

\* the name of the n-th page file
Stem(n) == IF n = 1 THEN "index" ELSE IF n = 2 THEN "navigation" ELSE "page" \o ToString(n)

MinBlockSizes == {5, 6}
Thresholds == {70, 90}
MinOccurrences == {2, 3}

(***************************************************************************)
(* State.                                                                  *)
(***************************************************************************)
VARIABLES
    disk,                  \* the file system under the root: path -> content
    dir,                   \* the root's page files, in the order os.walk lists them
    unreadable,            \* paths whose open(path, 'r') raises
    unwritable,            \* paths whose open(path, 'w') raises
    min_block_size,        \* self.min_block_size
    similarity_threshold,  \* self.similarity_threshold, in hundredths
    min_occurrences,       \* self.min_occurrences
    debug,                 \* self.debug
    php_files,             \* self.php_files
    file_contents,         \* self.file_contents
    scanned,               \* the contents as scan_directory loaded them
    common_blocks,         \* self.common_blocks, as the sequence of its items
    include_files,         \* include_files of run(): block id -> path
    replacements,          \* replacements of apply_includes
    warnings,              \* "Warning: Could not find block" lines printed
    ci, mi,                \* position of apply_includes' two loops
    pc,                    \* position of run()
    run,                   \* which run over the directory this is
    result,                \* what run() returned
    log,                   \* one replacement record per occurrence handled
    twin                   \* the same rewrite pass with the debug flag negated

vars == <<disk, dir, unreadable, unwritable, min_block_size, similarity_threshold,
          min_occurrences, debug, php_files, file_contents, scanned,
          common_blocks, include_files, replacements, warnings, ci, mi, pc, run, result, log, twin>>

env == <<dir, unreadable, unwritable>>
params == <<min_block_size, similarity_threshold, min_occurrences, debug>>

Put(f, k, v) == [x \in DOMAIN f \cup {k} |-> IF x = k THEN v ELSE f[x]]

NoTwin == [file_contents |-> << >>, disk |-> << >>, replacements |-> 0, warnings |-> 0,
           raised |-> FALSE]

\* PHPRefactor.__init__, lines 23-31, on a directory of page files
Constructed ==
    /\ php_files = << >>
    /\ file_contents = << >>
    /\ scanned = << >>
    /\ common_blocks = << >>
    /\ include_files = << >>
    /\ replacements = 0
    /\ warnings = 0
    /\ ci = 1
    /\ mi = 1
    /\ pc = "scan"
    /\ run = 1
    /\ result = << >>
    /\ log = << >>
    /\ twin = NoTwin

Directory ==
    \E n \in 1..MaxFiles : \E contents \in [1..n -> Docs] :
        /\ dir = [k \in 1..n |-> PagePath(Stem(k))]
        /\ disk = [q \in {PagePath(Stem(k)) : k \in 1..n} |->
                      contents[CHOOSE k \in 1..n : PagePath(Stem(k)) = q]]

Tunables ==
    /\ min_block_size \in MinBlockSizes
    /\ similarity_threshold \in Thresholds
    /\ min_occurrences \in MinOccurrences

Init ==
    /\ Directory
    /\ Tunables
    /\ debug = FALSE
    /\ unreadable = {}
    /\ unwritable = {}
    /\ Constructed

(***************************************************************************)
(* scan_directory, lines 38-44.  os.walk lists the root's files, then the  *)
(* files of its includes subdirectory, in an order the file system picks.  *)
(***************************************************************************)
Artifacts == {q \in DOMAIN disk : q.dir = IncludesDir}

Orderings(S) ==
    {o \in [1..Cardinality(S) -> S] : \A i, j \in 1..Cardinality(S) : o[i] = o[j] => i = j}

RECURSIVE ReadAll(_, _, _)
\* lines 42-44 over the listed files
ReadAll(files, contents, n) ==
    IF n > Len(files) THEN contents
    ELSE ReadAll(files, Put(contents, files[n], disk[files[n]]), n + 1)

ScanDirectory ==
    /\ pc = "scan"
    /\ \E order \in Orderings(Artifacts) :
          LET files == dir \o order
          IN  IF \E n \in 1..Len(files) : files[n] \in unreadable
              THEN /\ pc' = "raised"
                   /\ UNCHANGED <<php_files, file_contents, scanned>>
              ELSE /\ php_files' = files
                   /\ file_contents' = ReadAll(files, << >>, 1)
                   /\ scanned' = file_contents'
                   /\ pc' = "identify"
    /\ UNCHANGED <<disk, env, params, common_blocks, include_files, replacements,
                   warnings, ci, mi, run, result, log, twin>>

(***************************************************************************)
(* identify_common_blocks, lines 216-251.                                  *)
(***************************************************************************)
ExtractedBlocks == AllBlocks(php_files, scanned, min_block_size, 1)

Identify ==
    /\ pc = "identify"
    /\ common_blocks' = IdentifyCommonBlocks(ExtractedBlocks, similarity_threshold,
                                             min_occurrences)
    /\ pc' = "create"
    /\ UNCHANGED <<disk, env, params, php_files, file_contents, scanned, include_files,
                   replacements, warnings, ci, mi, run, result, log, twin>>

(***************************************************************************)
(* create_includes, lines 260-286.                                         *)
(***************************************************************************)
\* create_includes without the writes of lines 280-281
WriteIncludesNone(d, clusters, n) == d

RECURSIVE WriteIncludes(_, _, _)
\* lines 270-281: one write per cluster, in order; a later write to the same
\* path replaces the earlier file
WriteIncludes(d, clusters, n) ==
    IF n > Len(clusters) THEN d
    ELSE WriteIncludes(Put(d, ArtifactPath(clusters[n].blocks),
                           IncludeContent(clusters[n].blocks)),
                       clusters, n + 1)

\* line 283
IncludeFiles(clusters) ==
    [id \in {clusters[n].id : n \in 1..Len(clusters)} |->
        ArtifactPath(clusters[CHOOSE n \in 1..Len(clusters) : clusters[n].id = id].blocks)]

CreateIncludes ==
    /\ pc = "create"
    /\ disk' = WriteIncludes(disk, common_blocks, 1)
    /\ include_files' = IncludeFiles(common_blocks)
    /\ replacements' = 0
    /\ ci' = 1
    /\ mi' = 1
    /\ twin' = [file_contents |-> file_contents, disk |-> disk',
                replacements |-> 0, warnings |-> 0, raised |-> FALSE]
    /\ pc' = "apply"
    /\ UNCHANGED <<env, params, php_files, file_contents, scanned, common_blocks,
                   warnings, run, result, log>>

(***************************************************************************)
(* apply_includes, lines 311-643: one member occurrence per step.          *)
(***************************************************************************)
CurrentCluster == common_blocks[ci]
\* the member of line 323 taken to be the first block of the cluster
CurrentBlockSeed == CurrentCluster.blocks[1]
CurrentBlock == CurrentCluster.blocks[mi]
\* the type of line 317 taken from the member being handled
CurrentTypeOwn == CurrentBlock.type
\* line 317
CurrentType == CurrentCluster.blocks[1].type
\* lines 312-314
CurrentStatement == IncludeStatement(RelPath(include_files[CurrentCluster.id]))

\* the occurrence tried on the contents scan_directory loaded
TriedOnSnapshot(contents, flag) ==
    ApplyTiers(CurrentBlock, CurrentType, scanned[CurrentBlock.file], CurrentStatement,
               CurrentBlock.file, CurrentBlock.file \notin unwritable, flag)

\* the occurrence tried on given contents with a given debug flag
Tried(contents, flag) ==
    ApplyTiers(CurrentBlock, CurrentType, contents[CurrentBlock.file], CurrentStatement,
               CurrentBlock.file, CurrentBlock.file \notin unwritable, flag)

\* the loop of line 323 left after the first member of each cluster
AdvanceFirstOnly == mi' = 1 /\ ci' = ci + 1

Advance ==
    IF mi < Len(CurrentCluster.blocks)
    THEN /\ mi' = mi + 1
         /\ ci' = ci
    ELSE /\ mi' = 1
         /\ ci' = ci + 1

\* the twin pass handles the same occurrence with the flag negated
TwinOutcome(out) ==
    IF out.raised THEN [twin EXCEPT !.raised = TRUE]
    ELSE IF out.tier = "none" THEN [twin EXCEPT !.warnings = @ + 1]
    ELSE [twin EXCEPT !.file_contents[CurrentBlock.file] = out.content,
                      !.disk[CurrentBlock.file] = out.content,
                      !.replacements = @ + 1]

TwinStep ==
    IF twin.raised THEN twin
    ELSE TwinOutcome(Tried(twin.file_contents, ~debug))

\* lines 323-643 for the current member, given the outcome of its chain:
\* the file is rewritten and counted, or the warning is counted
ApplyOutcome(out, f) ==
    IF out.raised
    THEN /\ pc' = "raised"
         /\ UNCHANGED <<disk, file_contents, replacements, warnings, ci, mi, log>>
    ELSE /\ pc' = pc
         /\ Advance
         /\ log' = Append(log, [run |-> run, cluster |-> CurrentCluster.id,
                                member |-> mi, file |-> f,
                                block |-> CurrentBlock.content,
                                statement |-> CurrentStatement,
                                tier |-> out.tier,
                                before |-> file_contents[f],
                                after |-> out.content])
         /\ IF out.tier = "none"
            THEN /\ warnings' = warnings + 1
                 /\ UNCHANGED <<disk, file_contents, replacements>>
            ELSE /\ disk' = [disk EXCEPT ![f] = out.content]
                 /\ file_contents' = [file_contents EXCEPT ![f] = out.content]
                 /\ replacements' = replacements + 1
                 /\ warnings' = warnings

ApplyOccurrence ==
    /\ pc = "apply"
    /\ ci <= Len(common_blocks)
    /\ ApplyOutcome(Tried(file_contents, debug), CurrentBlock.file)
    /\ twin' = TwinStep
    /\ UNCHANGED <<env, params, php_files, scanned, common_blocks, include_files, run,
                   result>>

\* lines 645-646 and 660
Return ==
    /\ pc = "apply"
    /\ ci > Len(common_blocks)
    /\ result' = <<Len(php_files), Len(common_blocks), replacements>>
    /\ pc' = "done"
    /\ UNCHANGED <<disk, env, params, php_files, file_contents, scanned, common_blocks,
                   include_files, replacements, warnings, ci, mi, run, log, twin>>

Next == ScanDirectory \/ Identify \/ CreateIncludes \/ ApplyOccurrence \/ Return

\* one run() over a fresh directory, every file readable and writable
Spec == Init /\ [][Next]_vars

(***************************************************************************)
(* A further run: extract_php_includes (lines 700-708) builds a new        *)
(* PHPRefactor with the same tunables over the directory the last run      *)
(* left.                                                                   *)
(***************************************************************************)
Rerun ==
    /\ pc = "done"
    /\ run < MaxRuns
    /\ run' = run + 1
    /\ php_files' = << >>
    /\ file_contents' = << >>
    /\ scanned' = << >>
    /\ common_blocks' = << >>
    /\ include_files' = << >>
    /\ replacements' = 0
    /\ warnings' = 0
    /\ ci' = 1
    /\ mi' = 1
    /\ pc' = "scan"
    /\ result' = << >>
    /\ twin' = NoTwin
    /\ UNCHANGED <<disk, env, params, log>>

NextRerun == Next \/ Rerun

SpecRerun == Init /\ [][NextRerun]_vars

(***************************************************************************)
(* A directory in which one page file cannot be read, or cannot be         *)
(* written; the tunables are the defaults of line 12 (the block size apart,*)
(* which is scaled to the documents).                                      *)
(***************************************************************************)
InitIO ==
    /\ Directory
    /\ min_block_size = 5
    /\ similarity_threshold = 90
    /\ min_occurrences = 2
    /\ debug = FALSE
    /\ \E k \in 1..MaxFiles :
          /\ k <= Len(dir)
          /\ \/ unreadable = {dir[k]} /\ unwritable = {}
             \/ unreadable = {} /\ unwritable = {dir[k]}
    /\ Constructed

SpecIO == InitIO /\ [][Next]_vars

(***************************************************************************)
(* Clustering under every threshold and every min_occurrences, over the    *)
(* blocks the smaller min_block_size lets through.                         *)
(***************************************************************************)
InitCluster ==
    /\ Directory
    /\ min_block_size = 5
    /\ similarity_threshold \in Thresholds
    /\ min_occurrences \in MinOccurrences
    /\ debug = FALSE
    /\ unreadable = {}
    /\ unwritable = {}
    /\ Constructed

SpecCluster == InitCluster /\ [][Next]_vars

(***************************************************************************)
(* A run with the debug flag either way.                                   *)
(***************************************************************************)
InitDebug ==
    /\ Directory
    /\ min_block_size \in MinBlockSizes
    /\ similarity_threshold = 90
    /\ min_occurrences = 2
    /\ debug \in BOOLEAN
    /\ unreadable = {}
    /\ unwritable = {}
    /\ Constructed

SpecDebug == InitDebug /\ [][Next]_vars


(***************************************************************************)
(* Directories whose blocks overlap: an element nested in a header that an *)
(* earlier cluster replaces, so that the exact tier fails on it and the    *)
(* later tiers are tried, and PHP blocks, whose recorded content is        *)
(* rebuilt around the inner text (line 206).                               *)
(***************************************************************************)
DocNav == <<NavOpen, "a", SP, "b", NavClose>>
DocHeaderNav == <<HeaderOpen, NavOpen, "a", SP, "b", NavClose, HeaderClose>>
DocHeaderScripts == <<HeaderOpen, ScriptOpen, "a", SP, "b", ScriptClose, HeaderClose,
                      ScriptOpen, "b", SP, "a", ScriptClose>>
TierDocs == {DocHeader, DocScript, DocScriptTwice, DocNav, DocHeaderNav,
             DocHeaderScripts, DocPhp, DocPhpWs}

InitTiers ==
    /\ \E n \in 1..MaxFiles : \E contents \in [1..n -> TierDocs] :
          /\ dir = [k \in 1..n |-> PagePath(Stem(k))]
          /\ disk = [q \in {PagePath(Stem(k)) : k \in 1..n} |->
                        contents[CHOOSE k \in 1..n : PagePath(Stem(k)) = q]]
    /\ Tunables
    /\ debug = FALSE
    /\ unreadable = {}
    /\ unwritable = {}
    /\ Constructed

SpecTiers == InitTiers /\ [][Next]_vars

(***************************************************************************)
(* Directories for the extractor: files with an element whose digest       *)
(* cannot be taken, and files with a head element whose link and meta      *)
(* elements stand in runs of several lengths.  The blocks of a head are a  *)
(* few symbols long, so min_block_size is small.                           *)
(***************************************************************************)
DocScriptNavBad == <<ScriptOpen, "a", SP, "b", ScriptClose,
                     NavOpen, "a", BadRef, "b", NavClose>>
DocBadHeader == <<HeaderOpen, "a", BadRef, "b", HeaderClose>>
DocNavBadCss == <<NavOpen, "a", SP, "b", NavClose, HeaderOpen, "a", BadRef, "b", HeaderClose,
                  LinkStyle, LinkResponsive, LinkFotorama, LinkFavicon>>
DocBadPhp == <<FooterOpen, "a", BadRef, "b", FooterClose,
               PhpOpen, SP, "a", SP, "b", SP, "c", "d", SP, PhpClose>>
DocHeadLinks == <<HeadOpen, LinkStyle, NL, LinkResponsive, MetaCharset, LinkFavicon,
                  HeadClose>>
DocHeadMixed == <<HeadOpen, MetaCharset, SP, MetaViewport, Title, LinkStyle, "x",
                  LinkResponsive, NL, LinkFotorama, LinkFavicon, HeadClose>>
DocHeadText == <<HeadOpen, LinkStyle, SP, "x", SP, LinkResponsive, MetaCharset, SP, NL,
                 MetaViewport, HeadClose>>
DocHeadSingles == <<HeadOpen, LinkStyle, MetaCharset, LinkResponsive, MetaViewport,
                    HeadClose>>
ExtractDocs == {DocScriptNavBad, DocBadHeader, DocNavBadCss, DocBadPhp, DocHeadLinks,
                DocHeadMixed, DocHeadText, DocHeadSingles}
SmallBlockSizes == {2, 3}

InitExtract ==
    /\ \E n \in 1..MaxFiles : \E contents \in [1..n -> ExtractDocs] :
          /\ dir = [k \in 1..n |-> PagePath(Stem(k))]
          /\ disk = [q \in {PagePath(Stem(k)) : k \in 1..n} |->
                        contents[CHOOSE k \in 1..n : PagePath(Stem(k)) = q]]
    /\ min_block_size \in SmallBlockSizes
    /\ similarity_threshold = 90
    /\ min_occurrences = 2
    /\ debug = FALSE
    /\ unreadable = {}
    /\ unwritable = {}
    /\ Constructed

SpecExtract == InitExtract /\ [][Next]_vars

(***************************************************************************)
(* Directories for the later tiers: a script with an attribute beside one  *)
(* nested in a header, nav elements with anchors and a nested script, and  *)
(* a nav element that clusters with a PHP block of the same inner text.    *)
(***************************************************************************)
DocHeaderSrcScript == <<HeaderOpen, ScriptOpen, "a", SP, "b", ScriptClose, HeaderClose,
                        ScriptSrcOpen, "b", SP, "a", ScriptClose>>
DocNavScript == <<NavOpen, ScriptOpen, "a", SP, "b", ScriptClose, NavClose>>
DocNavLinkScript == <<NavOpen, AHome, ScriptOpen, "a", SP, "b", ScriptClose, NavClose>>
DocNavMenuScript == <<NavOpen, AHome, ANews, AAbout, ScriptOpen, "a", SP, "b", ScriptClose,
                      NavClose>>
DocNavLong == <<NavOpen, "a", SP, "b", SP, "c", SP, "d", "e", NavClose>>
DocPhpWsLong == <<PhpOpen, SP, NL, "a", SP, "b", SP, "c", SP, "d", "e", SP, PhpClose>>
DocPhpPadded == <<PhpOpen, SP, NL, "a", SP, "b", SP, "c", SP, "d", "e", SP, PhpClose,
                  "v", "w", "x", "y", "z">>
MatchDocs == {DocHeader, DocScript, DocHeaderSrcScript, DocNavScript, DocNavLinkScript,
              DocNavMenuScript, DocNavLong, DocPhpWsLong, DocPhpPadded}

InitMatch ==
    /\ \E n \in 1..MaxFiles : \E contents \in [1..n -> MatchDocs] :
          /\ dir = [k \in 1..n |-> PagePath(Stem(k))]
          /\ disk = [q \in {PagePath(Stem(k)) : k \in 1..n} |->
                        contents[CHOOSE k \in 1..n : PagePath(Stem(k)) = q]]
    /\ min_block_size = 5
    /\ similarity_threshold \in Thresholds
    /\ min_occurrences = 2
    /\ debug = FALSE
    /\ unreadable = {}
    /\ unwritable = {}
    /\ Constructed

SpecMatch == InitMatch /\ [][Next]_vars

(***************************************************************************)
(* Properties.                                                             *)
(***************************************************************************)
Clusters == 1..Len(common_blocks)
MembersOf(c) == common_blocks[c].blocks
\* the blocks the extractor gives for a scanned file
BlocksOf(f) == ExtractPotentialBlocks(scanned[f], min_block_size)
Scanned == pc \in {"identify", "create", "apply", "done"}

\* C1: three files that each hold the same header block (and nothing else the
\* extractor picks up), threshold 0.9, min_occurrences 2: the run ends with
\* one cluster of 3 members and one artifact, and every file has lost the
\* raw block and holds the reference statement.
C1_ThreeIdenticalHeaders ==
    (/\ pc = "done"
     /\ Len(php_files) = 3
     /\ similarity_threshold = 90
     /\ min_occurrences = 2
     /\ \A n \in 1..3 :
           /\ Len(BlocksOf(php_files[n])) = 1
           /\ BlocksOf(php_files[n])[1].type = "header"
           /\ BlocksOf(php_files[n])[1].content = BlocksOf(php_files[1])[1].content)
    => /\ Len(common_blocks) = 1
       /\ Len(MembersOf(1)) = 3
       /\ Cardinality(Artifacts) = 1
       /\ \A n \in 1..3 :
             /\ ~Contains(disk[php_files[n]], BlocksOf(php_files[1])[1].content)
             /\ Contains(disk[php_files[n]],
                         IncludeStatement(RelPath(include_files[common_blocks[1].id])))

\* C2: in every cluster the members come from pairwise distinct files.
C2_DistinctFiles ==
    \A c \in Clusters : \A i, j \in 1..Len(MembersOf(c)) :
        i # j => MembersOf(c)[i].file # MembersOf(c)[j].file

\* C3 as stated: two blocks from two files that score below the threshold
\* against each other are never members of one cluster.
C3_BelowThresholdApart ==
    \A c \in Clusters : \A i, j \in 1..Len(MembersOf(c)) :
        (i # j /\ MembersOf(c)[i].file # MembersOf(c)[j].file)
        => RatioAtLeast(MembersOf(c)[i].content, MembersOf(c)[j].content,
                        similarity_threshold)

\* C3 amended: when identify_common_blocks has returned, a block that scores
\* below the threshold against the seed of a cluster (its first member) is
\* not a member of that cluster, and no member but the seed comes from the
\* seed's file.
C3_SeedSimilarity ==
    pc = "create"
    => \A c \in Clusters : \A j \in 2..Len(MembersOf(c)) :
          /\ RatioAtLeast(MembersOf(c)[1].content, MembersOf(c)[j].content,
                          similarity_threshold)
          /\ MembersOf(c)[j].file # MembersOf(c)[1].file

\* a cluster of three whose two later members differ from the seed and score
\* below the threshold against each other
C3_Witness ==
    pc = "create" /\ \E c \in Clusters :
        /\ Len(MembersOf(c)) >= 3
        /\ MembersOf(c)[2].content # MembersOf(c)[1].content
        /\ MembersOf(c)[3].content # MembersOf(c)[1].content
        /\ ~RatioAtLeast(MembersOf(c)[2].content, MembersOf(c)[3].content,
                         similarity_threshold)

\* C4: a second run over the directory the first run left retains no
\* cluster and makes no replacement.
C4_Idempotent ==
    (run = 2 /\ pc = "done") => (result[2] = 0 /\ result[3] = 0)

\* C5: no error raised while a file is read or an occurrence is rewritten
\* leaves run(): the run never ends by raising.
C5_RunCompletes == pc # "raised"

\* C6: every candidate block the extractor returns is at least
\* min_block_size long.
C6_MinBlockSize ==
    Scanned => \A k \in 1..Len(ExtractedBlocks) :
                   Len(ExtractedBlocks[k].content) >= min_block_size

\* C7: of the spans the scans find in a file (the blocks returned when no
\* length is asked for), one of length exactly min_block_size is returned
\* as a candidate and one of length min_block_size - 1 is not.
C7_SizeBoundary ==
    Scanned => \A n \in 1..Len(php_files) :
        \A b \in Range(ExtractPotentialBlocks(scanned[php_files[n]], 0)) :
            /\ Len(b.content) = min_block_size => b \in Range(BlocksOf(php_files[n]))
            /\ Len(b.content) = min_block_size - 1 => b \notin Range(BlocksOf(php_files[n]))

\* the replacement left every character outside one span alone, and that
\* span held the block up to whitespace
OutsideSpanUnchanged(e) ==
    \E i \in 0..Len(e.before) : \E n \in 0..(Len(e.before) - i) :
        /\ NormalizeWs(Slice(e.before, i, i + n)) = NormalizeWs(e.block)
        /\ e.after = Splice(e.before, i, i + n, e.statement)

\* C8: two files whose blocks are the same up to whitespace: both blocks are
\* in one cluster, both occurrences are replaced by the exact or the fuzzy
\* tier, and nothing outside the located span changes.
C8_WhitespaceDrift ==
    (pc = "done" /\ Len(php_files) = 2 /\ min_occurrences = 2)
    => \A b1 \in Range(BlocksOf(php_files[1])) : \A b2 \in Range(BlocksOf(php_files[2])) :
          (b1.type = b2.type /\ NormalizeWs(b1.content) = NormalizeWs(b2.content))
          => \E c \in Clusters :
                /\ \E m \in Range(MembersOf(c)) :
                      m.file = php_files[1] /\ m.content = b1.content
                /\ \E m \in Range(MembersOf(c)) :
                      m.file = php_files[2] /\ m.content = b2.content
                /\ \A k \in 1..Len(log) :
                      (/\ log[k].cluster = common_blocks[c].id
                       /\ \/ log[k].file = php_files[1] /\ log[k].block = b1.content
                          \/ log[k].file = php_files[2] /\ log[k].block = b2.content)
                      => /\ log[k].tier \in {"exact", "fuzzy"}
                         /\ OutsideSpanUnchanged(log[k])

\* C10: the rewrite pass run with the debug flag negated is, after every
\* occurrence, where the run itself is: same page files in memory and on
\* disk, same artifacts, same counts; and the triple returned is the same.
C10_DebugNoEffect ==
    pc \in {"apply", "done"}
    => /\ twin.file_contents = file_contents
       /\ twin.disk = disk
       /\ twin.replacements = replacements
       /\ twin.warnings = warnings
       /\ ~twin.raised
       /\ pc = "done" => result = <<Len(php_files), Len(common_blocks), twin.replacements>>

\* a run with debug set that ended with a replacement made and an occurrence
\* on which the exact tier failed
C10_Witness ==
    /\ pc = "done"
    /\ debug
    /\ replacements > 0
    /\ \E k \in 1..Len(log) : log[k].tier # "exact"
    /\ \E k \in 1..Len(log) : log[k].tier = "fuzzy"

C12_ArtifactsNeverRewritten ==
    [][pc = "apply" => \A q \in Artifacts : disk'[q] = disk[q]]_vars

\* the step handles one member occurrence; its record is the last of log'
OccurrenceStep == pc = "apply" /\ pc' = "apply" /\ Len(log') = Len(log) + 1
Handled == log'[Len(log')]

\* C13: a page file changes, in memory or on disk, only at a step where some
\* tier succeeds for a member occurrence owned by that file; when no tier
\* succeeds nothing is written, the count stays and the run goes on; so a
\* file owning no member is never modified.
C13_Frame ==
    [][/\ \A f \in DOMAIN disk :
             (f.dir = "." /\ disk'[f] # disk[f])
             => /\ OccurrenceStep
                /\ f = common_blocks[ci].blocks[mi].file
                /\ Handled.tier # "none"
                /\ replacements' = replacements + 1
       /\ \A f \in DOMAIN file_contents :
             (pc = "apply" /\ file_contents'[f] # file_contents[f])
             => /\ OccurrenceStep
                /\ f = common_blocks[ci].blocks[mi].file
                /\ Handled.tier # "none"
       /\ (OccurrenceStep /\ Handled.tier = "none")
          => /\ disk' = disk
             /\ file_contents' = file_contents
             /\ replacements' = replacements
             /\ warnings' = warnings + 1]_vars

\* a finished run in which one occurrence found no tier, another was
\* replaced by a later tier than the exact one, and a file owning no member
\* is as it was scanned
C13_Witness ==
    /\ pc = "done"
    /\ \E k \in 1..Len(log) : log[k].tier = "none"
    /\ \E k \in 1..Len(log) : log[k].tier \in {"script", "fuzzy", "navigation_fallback"}
    /\ \E n \in 1..Len(php_files) :
          /\ \A c \in Clusters : \A m \in Range(MembersOf(c)) : m.file # php_files[n]
          /\ disk[php_files[n]] = scanned[php_files[n]]

\* C14: between any two occurrence steps, and at the end, the content in
\* file_contents of every scanned file is its content on disk; and every
\* occurrence is matched against that latest content: what the step writes
\* is what the tiers give on the file as the step found it on disk.
C14_DiskIsMemory ==
    /\ pc \in {"apply", "done"} => \A n \in 1..Len(php_files) :
                                      file_contents[php_files[n]] = disk[php_files[n]]
    /\ (pc \in {"apply", "done"} /\ log # << >> /\ log[Len(log)].run = run)
       => LET e == log[Len(log)]
              c == CHOOSE d \in Clusters : common_blocks[d].id = e.cluster
              out == ApplyTiers(MembersOf(c)[e.member], MembersOf(c)[1].type, e.before,
                                e.statement, e.file, TRUE, FALSE)
          IN  /\ out.tier = e.tier
              /\ e.tier # "none" => /\ out.content = e.after
                                    /\ disk[e.file] = e.after

\* an occurrence was replaced in a file that an earlier occurrence had
\* already rewritten
C14_Witness ==
    /\ pc = "apply"
    /\ \E j, k \in 1..Len(log) :
          /\ j < k
          /\ log[j].file = log[k].file
          /\ log[j].tier # "none"
          /\ log[k].tier # "none"
          /\ log[k].before = log[j].after
          /\ log[k].before # scanned[log[k].file]

\* the tiers of one recorded occurrence, each tried alone on the content the
\* step found
TierHits(e) ==
    LET c == CHOOSE d \in Clusters : common_blocks[d].id = e.cluster
        block == MembersOf(c)[e.member]
        block_type == MembersOf(c)[1].type
    IN  [exact |-> ExactTier(block, e.before, e.statement, FALSE),
         pattern |-> IF block_type \in {"css_links", "link_group"}
                     THEN LinkPatternTier(block, e.before, e.statement)
                     ELSE IF block_type \in {"navigation", "header", "footer"}
                          THEN FingerprintTier(block, e.before, e.statement)
                          ELSE Miss,
         attrs |-> IF block_type = "script"
                   THEN ScriptTier(block, e.before, e.statement)
                   ELSE IF block_type = "meta_tags"
                        THEN MetaTier(block, e.before, e.statement) ELSE Miss,
         fuzzy |-> FuzzyTier(block, block_type, e.before, e.statement, e.file),
         links |-> IF block_type = "navigation"
                   THEN NavContentTier(block, e.before, e.statement) ELSE Miss,
         filename |-> NavFileTier(block_type, e.before, e.statement, e.file)]

\* C15: the tiers are tried in the order exact, pattern/fingerprint,
\* attribute-set, fuzzy, link-set, filename, each only when every earlier one
\* failed: the occurrence is rewritten by the first tier that hits, with that
\* tier's content alone, and the replacement count grows by at most 1.
C15_TierOrder ==
    (pc \in {"apply", "done"} /\ log # << >>)
    => LET e == log[Len(log)]
           t == TierHits(e)
       IN  /\ t.exact.hit => (e.tier = "exact" /\ e.after = t.exact.content)
           /\ (~t.exact.hit /\ t.pattern.hit)
              => (e.tier = t.pattern.name /\ e.after = t.pattern.content)
           /\ (~t.exact.hit /\ ~t.pattern.hit /\ t.attrs.hit)
              => (e.tier = t.attrs.name /\ e.after = t.attrs.content)
           /\ (~t.exact.hit /\ ~t.pattern.hit /\ ~t.attrs.hit /\ t.fuzzy.hit)
              => (e.tier = t.fuzzy.name /\ e.after = t.fuzzy.content)
           /\ (~t.exact.hit /\ ~t.pattern.hit /\ ~t.attrs.hit /\ ~t.fuzzy.hit
               /\ t.links.hit)
              => (e.tier = "menu_content" /\ e.after = t.links.content)
           /\ (~t.exact.hit /\ ~t.pattern.hit /\ ~t.attrs.hit /\ ~t.fuzzy.hit
               /\ ~t.links.hit /\ t.filename.hit)
              => (e.tier = "navigation_fallback" /\ e.after = t.filename.content)
           /\ (~t.exact.hit /\ ~t.pattern.hit /\ ~t.attrs.hit /\ ~t.fuzzy.hit
               /\ ~t.links.hit /\ ~t.filename.hit)
              => e.tier = "none"
           /\ replacements <= Cardinality({k \in 1..Len(log) : log[k].tier # "none"})
           /\ replacements <= Len(log)

\* the last occurrence handled was rewritten by the exact tier though a later
\* tier, tried alone, would have rewritten the file another way
C15_Witness ==
    /\ pc = "apply"
    /\ log # << >>
    /\ LET e == log[Len(log)]
           t == TierHits(e)
       IN  /\ e.tier = "exact"
           /\ \/ t.attrs.hit /\ t.attrs.content # e.after
              \/ t.filename.hit /\ t.filename.content # e.after
    /\ \E k \in 1..Len(log) : log[k].tier \in {"script", "navigation_fallback"}

\* C16: when the exact tier rewrites a file, only the first verbatim
\* occurrence of the block is replaced by the reference statement; further
\* occurrences stay in place.
C16_ExactFirstOnly ==
    \A k \in 1..Len(log) :
        log[k].tier = "exact"
        => LET i == Find(log[k].before, log[k].block, 0)
           IN  /\ i # -1
               /\ log[k].after = Splice(log[k].before, i, i + Len(log[k].block),
                                        log[k].statement)

\* C17: when identify_common_blocks has returned, every cluster has a seed
\* (its first member) at some place of the extraction order such that each
\* other member stands at a later place and scores at least
\* similarity_threshold against the seed.
C17_SeedFirst ==
    pc = "create"
    => LET all_blocks == ExtractedBlocks
       IN  \A c \in Clusters :
              \E s \in 1..Len(all_blocks) :
                  /\ all_blocks[s] = MembersOf(c)[1]
                  /\ \A j \in 2..Len(MembersOf(c)) :
                        \E p \in (s + 1)..Len(all_blocks) :
                            /\ all_blocks[p] = MembersOf(c)[j]
                            /\ RatioAtLeast(all_blocks[s].content,
                                            all_blocks[p].content, similarity_threshold)

\* a cluster whose seed took a member of other content and passed over a
\* later block of another file that scores below the threshold against it
C17_Witness ==
    /\ pc = "create"
    /\ \E c \in Clusters :
          /\ MembersOf(c)[2].content # MembersOf(c)[1].content
          /\ \E p \in 1..Len(ExtractedBlocks) :
                /\ ExtractedBlocks[p].file # MembersOf(c)[1].file
                /\ ExtractedBlocks[p].type = MembersOf(c)[1].type
                /\ ~RatioAtLeast(MembersOf(c)[1].content, ExtractedBlocks[p].content,
                                 similarity_threshold)

\* the forming clusters of the run's identify_common_blocks
Forming == FormingFrom(ExtractedBlocks, 1, {}, similarity_threshold, min_occurrences)
\* processed_hashes when identify_common_blocks returns
ProcessedHashes == IF Forming = << >> THEN {} ELSE Forming[Len(Forming)].processed_hashes

C19_ClaimedPerBlock ==
    pc = "create"
    => LET all_blocks == ExtractedBlocks
           forming == Forming
       IN  \A t \in 1..Len(forming) :
               forming[t].retained
               => \A p \in (forming[t].seed + 1)..Len(all_blocks) :
                     (/\ all_blocks[p].file # all_blocks[forming[t].seed].file
                      /\ RatioAtLeast(all_blocks[forming[t].seed].content,
                                      all_blocks[p].content, similarity_threshold)
                      /\ \A u \in 1..(t - 1) : all_blocks[p] \notin Range(forming[u].blocks)
                      /\ \E m \in Range(forming[t].blocks) :
                            m.content = all_blocks[p].content /\ m.file # all_blocks[p].file)
                     => all_blocks[p] \in Range(forming[t].blocks)

\* C20: for every retained cluster the artifact is the file
\* includes/<type>_<first 8 hex digits of the digest of the content>.php,
\* type and content being those of the cluster's first member, and the file
\* holds exactly that content.
C20_ArtifactOfSeed ==
    pc \in {"apply", "done"}
    => \A c \in Clusters :
          LET seed == MembersOf(c)[1]
              path == include_files[common_blocks[c].id]
          IN  /\ path = [dir |-> "includes", type |-> seed.type,
                         name |-> HexPrefix8(Md5Hex(seed.content))]
              /\ RelPath(path)
                    = "includes/" \o seed.type \o "_" \o HexPrefix8(Md5Hex(seed.content))
                      \o ".php"
              /\ path \in DOMAIN disk
              /\ disk[path] = seed.content

\* the artifacts are written, one of them for a cluster whose last member
\* has another content than its first
C20_Witness ==
    /\ pc = "apply"
    /\ \E c \in Clusters :
          /\ MembersOf(c)[Len(MembersOf(c))].content # MembersOf(c)[1].content
          /\ disk[include_files[common_blocks[c].id]] = MembersOf(c)[1].content

StructuralTypes == {"script", "navigation", "header", "footer", "css_links", "meta_tags",
                    "link_group"}

\* C21: when the structural scan of a file's content raises, the extractor
\* returns no structural block for that file, the ones found before the
\* failure included; the blocks it returns are then PHP blocks only.
C21_FailedScanNoBlocks ==
    Scanned
    => \A n \in 1..Len(php_files) :
          StructuralScan(scanned[php_files[n]], min_block_size).raised
          => \A b \in Range(BlocksOf(php_files[n])) : b.type \notin StructuralTypes

\* the runs of a head: <<a, b>> with a < b, two positions of `tags`, such that
\* nothing but elements of `tags` and whitespace stands from a to b, and no
\* element of `tags` before a or after b can be reached over whitespace alone
BetweenOnly(s, tags, a, b) ==
    \A k \in a..b : k \in Range(tags) \/ s[k + 1] \in Whitespace
MaximalRuns(s, tags) ==
    {r \in Range(tags) \X Range(tags) :
        /\ r[1] < r[2]
        /\ BetweenOnly(s, tags, r[1], r[2])
        /\ \A c \in Range(tags) :
              /\ c < r[1] => ~BetweenOnly(s, tags, c, r[1])
              /\ c > r[2] => ~BetweenOnly(s, tags, r[2], c)}

\* the blocks of the runs, in document order, the short ones dropped
RunBlocks(s, tags, type, size) ==
    LET firsts == SortedSeq({r[1] : r \in MaximalRuns(s, tags)})
        LastOf(a) == CHOOSE b \in Range(tags) : <<a, b>> \in MaximalRuns(s, tags)
        strs == [n \in 1..Len(firsts) |->
                    SelectSeq(SubSeq(s, firsts[n] + 1, LastOf(firsts[n]) + 1),
                              LAMBDA t : t \notin Whitespace)]
        kept == SelectSeq(strs, LAMBDA c : Len(c) >= size)
    IN  [n \in 1..Len(kept) |-> Block(type, kept[n], Md5Hex(kept[n]))]

C22_ScriptAttrsEqual ==
    \A k \in 1..Len(log) :
        (log[k].tier = "script" /\ OpensTag(log[k].block[1], ScriptOpen))
        => LET e == log[k]
               script_tag == FindAll(e.block, ScriptOpen, ScriptClose)[1]
               scripts == FindAll(e.before, ScriptOpen, ScriptClose)
           IN  \E n \in 1..Len(scripts) :
                   /\ ScriptAttrs(e.before[scripts[n][1] + 1])
                         = ScriptAttrs(e.block[script_tag[1] + 1])
                   /\ e.after = ReplaceAll(e.before, StrOf(e.before, scripts[n]),
                                           e.statement)

\* the cluster of a replacement record, and the type tag of its first member
ClusterOf(e) == CHOOSE d \in Clusters : common_blocks[d].id = e.cluster
SeedType(e) == MembersOf(ClusterOf(e))[1].type

\* the elements of the file, as a step found it, that have the tag of the
\* block's own element
SameTagElements(e) ==
    IF e.block[1] = NavOpen THEN FindAll(e.before, NavOpen, NavClose)
    ELSE IF e.block[1] = HeaderOpen THEN FindAll(e.before, HeaderOpen, HeaderClose)
    ELSE IF e.block[1] = FooterOpen THEN FindAll(e.before, FooterOpen, FooterClose)
    ELSE << >>

\* C23: for an occurrence of a navigation, header or footer block on which
\* the exact tier fails, when the file holds an element of the block's tag
\* whose fingerprint scores at least 0.8 against the block's fingerprint, the
\* fingerprint tier rewrites the file: the best-scoring such element is
\* replaced by the reference statement.
C23_FingerprintReplaces ==
    \A k \in 1..Len(log) :
        LET e == log[k]
            elements == SameTagElements(e)
            score(n) == Ratio(Fingerprint(e.block), Fingerprint(StrOf(e.before, elements[n])))
            good == {n \in 1..Len(elements) : score(n)[1] * 100 >= 80 * score(n)[2]}
        IN  (/\ SeedType(e) \in {"navigation", "header", "footer"}
             /\ ~Contains(e.before, e.block)
             /\ good # {})
            => /\ e.tier = "fingerprint"
               /\ \E n \in good :
                     /\ \A m \in good : score(m)[1] * score(n)[2] <= score(n)[1] * score(m)[2]
                     /\ e.after = ReplaceAll(e.before, StrOf(e.before, elements[n]),
                                             e.statement)

\* C24: in the fuzzy tier (every earlier tier having failed), when the
\* whitespace-normalized block is found in the whitespace-normalized file of
\* a navigation occurrence, the file's name contains 'navigation' and the
\* file is no more than 1.5 times as long as the block (equality included),
\* the whole file content is replaced by the reference statement.
C24_WholeFileUpToBoundary ==
    \A k \in 1..Len(log) :
        LET e == log[k]
            t == TierHits(e)
        IN  (/\ ~t.exact.hit /\ ~t.pattern.hit /\ ~t.attrs.hit
             /\ Contains(NormalizeWs(e.before), NormalizeWs(e.block))
             /\ SeedType(e) = "navigation"
             /\ IsNavigationFile(e.file)
             /\ 2 * Len(e.before) <= 3 * Len(e.block))
            => e.after = e.statement

\* C25: for a navigation occurrence on which every earlier tier failed, when
\* the block has at least one anchor and a nav container of the file holds
\* at least 70% of the block's (target, label) pairs, such a container is
\* replaced by the reference statement, however many anchors the block has.
C25_LinkSetAnyCount ==
    \A k \in 1..Len(log) :
        LET e == log[k]
            t == TierHits(e)
            menu_items == SelectSeq(e.block, LAMBDA s : s \in Anchors)
            navs == FindAll(e.before, NavOpen, NavClose)
            Share(n) == Cardinality({i \in 1..Len(menu_items) :
                                        menu_items[i] \in Range(StrOf(e.before, navs[n]))})
            found == {n \in 1..Len(navs) : Share(n) * 10 >= 7 * Len(menu_items)}
        IN  (/\ SeedType(e) = "navigation"
             /\ ~t.exact.hit /\ ~t.pattern.hit /\ ~t.attrs.hit /\ ~t.fuzzy.hit
             /\ Len(menu_items) >= 1
             /\ found # {})
            => \E n \in found :
                  e.after = ReplaceAll(e.before, StrOf(e.before, navs[n]), e.statement)

RECURSIVE MembersFrom(_)
\* the number of members of the clusters from the c-th on
MembersFrom(c) == IF c > Len(common_blocks) THEN 0 ELSE Len(MembersOf(c)) + MembersFrom(c + 1)

\* the records of the occurrence steps of this run
Handlings(c, m) ==
    {k \in 1..Len(log) : /\ log[k].run = run
                          /\ log[k].cluster = common_blocks[c].id
                          /\ log[k].member = m}

\* C27: when apply_includes returns, the count of replacements it returns
\* plus the number of 'could not find block' warnings is the number of
\* members of all retained clusters; each member occurrence was handled
\* once, and counted once, as replaced or as unresolved.
C27_Accounting ==
    pc = "done"
    => /\ result[3] = replacements
       /\ replacements + warnings = MembersFrom(1)
       /\ \A c \in Clusters : \A m \in 1..Len(MembersOf(c)) :
             Cardinality(Handlings(c, m)) = 1
       /\ replacements
             = Cardinality({k \in 1..Len(log) : log[k].run = run /\ log[k].tier # "none"})
       /\ warnings
             = Cardinality({k \in 1..Len(log) : log[k].run = run /\ log[k].tier = "none"})

\* a finished run with two clusters, at least four members, some replaced
\* and one unresolved
C27_Witness ==
    /\ pc = "done"
    /\ Len(common_blocks) >= 2
    /\ MembersFrom(1) >= 4
    /\ warnings >= 1
    /\ replacements >= 2

\* the places of a text where a reference statement begins
StatementsIn(text) ==
    {i \in 0..(Len(text) - 8) :
        /\ text[i + 1] = PhpOpen
        /\ text[i + 2] = SP
        /\ text[i + 3] = IncludeWord
        /\ text[i + 4] = SP}

\* every reference statement of a text names a file of the includes
\* directory that is on disk, by its path from the root
NamesArtifacts(text) ==
    \A i \in StatementsIn(text) :
        \E q \in Artifacts :
            text[i + 5] = "'" \o "includes/" \o q.type \o "_" \o q.name \o ".php" \o "';"

\* C28: run() writes every artifact before apply_includes inserts the first
\* reference statement: no page file holds a reference statement before
\* create_includes has returned, and from then on every reference statement
\* in a page file, on disk and in memory, names an artifact that is on disk.
C28_ArtifactsFirst ==
    /\ pc \in {"scan", "identify", "create"}
       => \A n \in 1..Len(dir) : StatementsIn(disk[dir[n]]) = {}
    /\ \A n \in 1..Len(dir) : NamesArtifacts(disk[dir[n]])
    /\ pc \in {"apply", "done"}
       => \A n \in 1..Len(dir) : NamesArtifacts(file_contents[dir[n]])

\* in the middle of the rewrite pass: a page file holds a reference
\* statement, two artifacts are on disk, and occurrences are still to come
C28_Witness ==
    /\ pc = "apply"
    /\ ci <= Len(common_blocks)
    /\ Cardinality(Artifacts) >= 2
    /\ \E n \in 1..Len(dir) : StatementsIn(disk[dir[n]]) # {}

\* all_blocks with every type tag replaced by one and the same tag
TypesErased(all_blocks) ==
    [k \in 1..Len(all_blocks) |-> [all_blocks[k] EXCEPT !.type = "block"]]

\* a cluster's members without their type tags
Untyped(blocks) ==
    [k \in 1..Len(blocks) |->
        [content |-> blocks[k].content, hash |-> blocks[k].hash, file |-> blocks[k].file]]

\* the tiers that are tried for one block type only
TiersOfType(type) ==
    CASE type \in {"css_links", "link_group"} -> {"link_pattern"}
      [] type = "navigation" -> {"fingerprint", "navigation_file", "menu_content",
                                 "navigation_fallback"}
      [] type \in {"header", "footer"} -> {"fingerprint"}
      [] type = "script" -> {"script"}
      [] type = "meta_tags" -> {"meta_tags"}
      [] OTHER -> {}
TypeRestrictedTiers ==
    {"link_pattern", "fingerprint", "script", "meta_tags", "navigation_file", "menu_content",
     "navigation_fallback"}

\* C29: the grouping does not look at type tags (the same blocks with their
\* tags erased fall into the same clusters); and for every member occurrence
\* the type-restricted tiers tried, and the prefix of the artifact's file
\* name, are those of the type tag of the cluster's first member, whatever
\* the member's own tag.
C29_SeedTypeDecides ==
    /\ pc = "create"
       => LET erased == IdentifyCommonBlocks(TypesErased(ExtractedBlocks),
                                            similarity_threshold, min_occurrences)
          IN  /\ Len(erased) = Len(common_blocks)
              /\ \A c \in Clusters : Untyped(erased[c].blocks) = Untyped(MembersOf(c))
    /\ pc \in {"apply", "done"}
       => /\ \A c \in Clusters :
                include_files[common_blocks[c].id].type = MembersOf(c)[1].type
          /\ \A k \in 1..Len(log) :
                LET e == log[k]
                    block == MembersOf(ClusterOf(e))[e.member]
                    out == ApplyTiers(block, SeedType(e), e.before, e.statement, e.file,
                                      TRUE, FALSE)
                IN  /\ e.tier = out.tier
                    /\ e.after = out.content
                    /\ e.tier \in TypeRestrictedTiers => e.tier \in TiersOfType(SeedType(e))

\* a PHP block in a cluster seeded by a navigation block was rewritten by a
\* tier kept for navigation blocks, and the artifact is named after the seed
C29_Witness ==
    /\ pc \in {"apply", "done"}
    /\ \E k \in 1..Len(log) :
          LET e == log[k]
              block == MembersOf(ClusterOf(e))[e.member]
          IN  /\ block.type = "php_code"
              /\ SeedType(e) = "navigation"
              /\ e.tier = "navigation_file"
              /\ include_files[e.cluster].type = "navigation"

=============================================================================
